---- MODULE Spec2Model ----
(***************************************************************************)
(* Gift Idea Saver (src/src/gift_idea_saver_main.py).                      *)
(*                                                                         *)
(* Text is modelled as a sequence of one-character strings ("sup2" stands  *)
(* for the single character U+00B2 SUPERSCRIPT TWO).  A Python value is a  *)
(* record [k, s, items]; the persisted file is a sequence of JSON tokens.  *)
(***************************************************************************)
EXTENDS Integers, Sequences, FiniteSets, TLC

VARIABLES
    pc,          \* the prompt the process is blocked on, or start/exited/crashed
    stack,       \* active screen functions, outermost first
    data,        \* the in-memory document (run_program's `data`)
    file,        \* the persisted file DATA_FILE
    name,        \* local `name` / `recipient_name` of the active screen
    gift_text,   \* local `gift_text` of add_gift_screen
    occasion,    \* local `occasion` of add_gift_screen
    out,         \* the result message the last step printed, "" if none
    exc,         \* the uncaught exception that ended the process, or "none"
    saved        \* whether the last step called save_data

vars == <<pc, stack, data, file, name, gift_text, occasion, out, exc, saved>>

----------------------------------------------------------------------------
(* Bounds *)

MaxGifts == 2        \* total gift records in the document
MaxReentries == 1    \* times the recipient list is re-entered from a gift list

----------------------------------------------------------------------------
(* Text *)

Whitespace == {" ", "\t"}

AsciiDigits == <<"0", "1", "2", "3", "4", "5", "6", "7", "8", "9">>

UpperChars == <<"A", "B", "C", "D", "E", "F", "G", "H", "I", "J", "K", "L", "M",
                "N", "O", "P", "Q", "R", "S", "T", "U", "V", "W", "X", "Y", "Z">>

LowerChars == <<"a", "b", "c", "d", "e", "f", "g", "h", "i", "j", "k", "l", "m",
                "n", "o", "p", "q", "r", "s", "t", "u", "v", "w", "x", "y", "z">>

IndexIn(seq, c) == CHOOSE i \in 1..Len(seq) : seq[i] = c

InSeq(seq, c) == \E i \in 1..Len(seq) : seq[i] = c

\* ord(c) for the characters the inputs use
CodePoint(c) ==
    IF c = "\t" THEN 9
    ELSE IF c = " " THEN 32
    ELSE IF InSeq(AsciiDigits, c) THEN 47 + IndexIn(AsciiDigits, c)
    ELSE IF c = ":" THEN 58
    ELSE IF InSeq(UpperChars, c) THEN 64 + IndexIn(UpperChars, c)
    ELSE IF InSeq(LowerChars, c) THEN 96 + IndexIn(LowerChars, c)
    ELSE 178 \* "sup2"

\* str.lower, one character
LowerChar(c) == IF InSeq(UpperChars, c) THEN LowerChars[IndexIn(UpperChars, c)] ELSE c

\* faulty variant of str.lower: the comparison stays case-sensitive
Lower_CaseSensitive(text) == text

\* str.lower
Lower(text) == [i \in 1..Len(text) |-> LowerChar(text[i])]

RECURSIVE LStrip(_)
LStrip(text) ==
    IF text = <<>> THEN <<>>
    ELSE IF Head(text) \in Whitespace THEN LStrip(Tail(text))
    ELSE text

RECURSIVE RStrip(_)
RStrip(text) ==
    IF text = <<>> THEN <<>>
    ELSE IF text[Len(text)] \in Whitespace THEN RStrip(SubSeq(text, 1, Len(text) - 1))
    ELSE text

\* str.strip
Strip(text) == RStrip(LStrip(text))

\* str.split(): the maximal runs of non-whitespace characters
RECURSIVE SplitFrom(_, _, _)
SplitFrom(text, word, words) ==
    IF text = <<>> THEN (IF word = <<>> THEN words ELSE Append(words, word))
    ELSE IF Head(text) \in Whitespace
         THEN SplitFrom(Tail(text), <<>>, IF word = <<>> THEN words ELSE Append(words, word))
         ELSE SplitFrom(Tail(text), Append(word, Head(text)), words)

Split(text) == SplitFrom(text, <<>>, <<>>)

\* sep.join(words)
RECURSIVE Join(_, _)
Join(words, sep) ==
    IF words = <<>> THEN <<>>
    ELSE IF Len(words) = 1 THEN words[1]
    ELSE words[1] \o sep \o Join(Tail(words), sep)

\* get_input: input(prompt).strip()
get_input(raw) == Strip(raw)

\* is_number: text.isdigit(); U+00B2 is a digit for isdigit
IsDigitChar(c) == InSeq(AsciiDigits, c) \/ c = "sup2"

is_number(text) == text # <<>> /\ \A i \in 1..Len(text) : IsDigitChar(text[i])

\* int(text) raises ValueError unless every character is a decimal digit
IntParses(text) == text # <<>> /\ \A i \in 1..Len(text) : InSeq(AsciiDigits, text[i])

RECURSIVE IntValue(_)
IntValue(text) ==
    IF text = <<>> THEN 0
    ELSE 10 * IntValue(SubSeq(text, 1, Len(text) - 1))
         + (IndexIn(AsciiDigits, text[Len(text)]) - 1)

\* clean_text
clean_text(text) == Strip(Join(Split(text), <<" ">>))

\* str < str: lexical by code point
RECURSIVE StrLess(_, _)
StrLess(a, b) ==
    IF b = <<>> THEN FALSE
    ELSE IF a = <<>> THEN TRUE
    ELSE IF CodePoint(Head(a)) < CodePoint(Head(b)) THEN TRUE
    ELSE IF CodePoint(Head(a)) > CodePoint(Head(b)) THEN FALSE
    ELSE StrLess(Tail(a), Tail(b))

\* list.sort on a list of strings
RECURSIVE InsertSorted(_, _)
InsertSorted(sorted, x) ==
    IF sorted = <<>> THEN <<x>>
    ELSE IF StrLess(x, Head(sorted)) THEN <<x>> \o sorted
    ELSE <<Head(sorted)>> \o InsertSorted(Tail(sorted), x)

RECURSIVE Sort(_)
Sort(xs) == IF xs = <<>> THEN <<>> ELSE InsertSorted(Sort(SubSeq(xs, 1, Len(xs) - 1)), xs[Len(xs)])

----------------------------------------------------------------------------
(* Python values: [k, s, items].  A dict keeps its entries in insertion     *)
(* order as "pair" records whose items hold the one value.                  *)

Str(s) == [k |-> "str", s |-> s, items |-> <<>>]

PyInt(s) == [k |-> "int", s |-> s, items |-> <<>>]

List(items) == [k |-> "list", s |-> <<>>, items |-> items]

Pair(key, v) == [k |-> "pair", s |-> key, items |-> <<v>>]

Dict(pairs) == [k |-> "dict", s |-> <<>>, items |-> pairs]

EmptyDict == Dict(<<>>)

\* list(d.keys())
DictKeys(d) == [i \in 1..Len(d.items) |-> d.items[i].s]

\* key in d
DictHas(d, key) == \E i \in 1..Len(d.items) : d.items[i].s = key

\* d[key]
DictGet(d, key) == d.items[CHOOSE i \in 1..Len(d.items) : d.items[i].s = key].items[1]

\* d[key] = v: an existing key keeps its position
DictSet(d, key, v) ==
    IF DictHas(d, key)
    THEN Dict([i \in 1..Len(d.items) |->
                 IF d.items[i].s = key THEN Pair(key, v) ELSE d.items[i]])
    ELSE Dict(Append(d.items, Pair(key, v)))

----------------------------------------------------------------------------
(* JSON text, as tokens *)

Tok(t, s) == [t |-> t, s |-> s]

Punct(t) == Tok(t, <<>>)

\* json.dump(data, file, indent=2)
RECURSIVE Dump(_), DumpItems(_), DumpPairs(_)
Dump(v) ==
    IF v.k = "str" THEN <<Tok("str", v.s)>>
    ELSE IF v.k = "int" THEN <<Tok("num", v.s)>>
    ELSE IF v.k = "list" THEN <<Punct("[")>> \o DumpItems(v.items) \o <<Punct("]")>>
    ELSE <<Punct("{")>> \o DumpPairs(v.items) \o <<Punct("}")>>

DumpItems(items) ==
    IF items = <<>> THEN <<>>
    ELSE IF Len(items) = 1 THEN Dump(items[1])
    ELSE Dump(items[1]) \o <<Punct(",")>> \o DumpItems(Tail(items))

DumpPairs(pairs) ==
    IF pairs = <<>> THEN <<>>
    ELSE LET member == <<Tok("str", pairs[1].s), Punct(":")>> \o Dump(pairs[1].items[1])
         IN  IF Len(pairs) = 1 THEN member
             ELSE member \o <<Punct(",")>> \o DumpPairs(Tail(pairs))

ParseFail == [ok |-> FALSE, val |-> EmptyDict, rest |-> <<>>]

ParseOk(v, rest) == [ok |-> TRUE, val |-> v, rest |-> rest]

\* json decoder: one value from the front of toks
RECURSIVE ParseValue(_), ParseElements(_, _), ParseMembers(_, _)
ParseValue(toks) ==
    IF toks = <<>> THEN ParseFail
    ELSE IF Head(toks).t = "str" THEN ParseOk(Str(Head(toks).s), Tail(toks))
    ELSE IF Head(toks).t = "num" THEN ParseOk(PyInt(Head(toks).s), Tail(toks))
    ELSE IF Head(toks).t = "["
         THEN IF Tail(toks) = <<>> THEN ParseFail
              ELSE IF Head(Tail(toks)).t = "]" THEN ParseOk(List(<<>>), Tail(Tail(toks)))
              ELSE ParseElements(Tail(toks), <<>>)
    ELSE IF Head(toks).t = "{"
         THEN IF Tail(toks) = <<>> THEN ParseFail
              ELSE IF Head(Tail(toks)).t = "}" THEN ParseOk(EmptyDict, Tail(Tail(toks)))
              ELSE ParseMembers(Tail(toks), EmptyDict)
    ELSE ParseFail

ParseElements(toks, acc) ==
    LET r == ParseValue(toks)
    IN  IF ~r.ok \/ r.rest = <<>> THEN ParseFail
        ELSE IF Head(r.rest).t = "," THEN ParseElements(Tail(r.rest), Append(acc, r.val))
        ELSE IF Head(r.rest).t = "]" THEN ParseOk(List(Append(acc, r.val)), Tail(r.rest))
        ELSE ParseFail

ParseMembers(toks, d) ==
    IF Len(toks) < 2 \/ Head(toks).t # "str" \/ toks[2].t # ":" THEN ParseFail
    ELSE LET r == ParseValue(Tail(Tail(toks)))
         IN  IF ~r.ok \/ r.rest = <<>> THEN ParseFail
             ELSE IF Head(r.rest).t = ","
                  THEN ParseMembers(Tail(r.rest), DictSet(d, Head(toks).s, r.val))
             ELSE IF Head(r.rest).t = "}"
                  THEN ParseOk(DictSet(d, Head(toks).s, r.val), Tail(r.rest))
             ELSE ParseFail

\* json.load(file): JSONDecodeError unless the text is exactly one value
json_load(toks) ==
    LET r == ParseValue(toks)
    IN  IF r.ok /\ r.rest = <<>> THEN r ELSE ParseFail

----------------------------------------------------------------------------
(* File load/save *)

Missing == [st |-> "missing", toks |-> <<>>]

\* exists, but open() raises OSError
Unreadable == [st |-> "unreadable", toks |-> <<>>]

\* exists, but its bytes are not UTF-8
Undecodable == [st |-> "undecodable", toks |-> <<>>]

TextFile(toks) == [st |-> "ok", toks |-> toks]

Returned(v) == [raised |-> "none", val |-> v]

Raised(e) == [raised |-> e, val |-> EmptyDict]

\* faulty variant of the cleanup loop: the isinstance test is inverted
Cleanup_Inverted(d) ==
    Dict([i \in 1..Len(d.items) |->
            IF d.items[i].items[1].k = "list"
            THEN Pair(d.items[i].s, List(<<>>))
            ELSE d.items[i]])

\* faulty variant of the cleanup loop: the loop is missing
Cleanup_Skipped(d) == d

\* the cleanup loop of load_data
Cleanup(d) ==
    Dict([i \in 1..Len(d.items) |->
            IF d.items[i].items[1].k # "list"
            THEN Pair(d.items[i].s, List(<<>>))
            ELSE d.items[i]])

\* faulty variant of load_data: the "expect a dict" test is missing, so
\* data.keys() fails on a list and on a scalar
load_data_NoDictCheck(f) ==
    IF f.st = "missing" THEN Returned(EmptyDict)
    ELSE IF f.st = "unreadable" THEN Returned(EmptyDict)
    ELSE IF f.st = "undecodable" THEN Raised("UnicodeDecodeError")
    ELSE LET r == json_load(f.toks)
         IN  IF ~r.ok THEN Returned(EmptyDict)
             ELSE IF r.val.k # "dict" THEN Raised("AttributeError")
             ELSE Returned(Cleanup(r.val))

load_data(f) ==
    IF f.st = "missing" THEN Returned(EmptyDict)
    ELSE IF f.st = "unreadable" THEN Returned(EmptyDict)
    ELSE IF f.st = "undecodable" THEN Raised("UnicodeDecodeError")
    ELSE LET r == json_load(f.toks)
         IN  IF ~r.ok THEN Returned(EmptyDict)
             ELSE IF r.val.k # "dict" THEN Returned(EmptyDict)
             ELSE Returned(Cleanup(r.val))

\* the file a completed save_data leaves
Written(d) == TextFile(Dump(d))

\* save_data: the file it leaves and the exception it raises.  A failure of
\* makedirs or open leaves the file as it was; a failure during the write
\* leaves any strict prefix of the text.
save_data(f, d) ==
    LET text == Dump(d)
    IN  {[f |-> Written(d), raised |-> "none"]}
        \cup {[f |-> f, raised |-> "OSError"]}
        \cup {[f |-> TextFile(SubSeq(text, 1, n)), raised |-> "OSError"] :
                n \in 0..(Len(text) - 1)}

----------------------------------------------------------------------------
(* String literals of the program *)

CANCEL == <<"c", "a", "n", "c", "e", "l">>

BIRTHDAY == <<"B", "i", "r", "t", "h", "d", "a", "y">>

CHRISTMAS == <<"C", "h", "r", "i", "s", "t", "m", "a", "s">>

OTHER_PREFIX == <<"O", "t", "h", "e", "r", ":", " ">>

IDEA == <<"i", "d", "e", "a">>

OCCASION == <<"o", "c", "c", "a", "s", "i", "o", "n">>

ONE == <<"1">>

TWO == <<"2">>

----------------------------------------------------------------------------
(* Lines the user types, as input() returns them *)

MenuLines ==
    { <<>>, <<"1">>, <<" ", "1">>, <<"0", "1">>, <<"2">>, <<"0">>, <<"3">>,
      <<"x">>, <<"sup2">> }

NameLines ==
    { <<>>, <<" ">>, <<"C", "a", "n", "c", "e", "l">>, <<"M", "o", "m">>,
      <<"m", "o", "m">>, <<"\t", "M", "o", "m", " ">> }

IdeaLines ==
    { <<>>, <<" ">>, <<"C", "A", "N", "C", "E", "L", " ">>, <<"S", "c", "a", "r", "f">> }

LabelLines == { <<>>, <<" ">>, <<"N", "e", "w", " ", "\t", "Y", "e", "a", "r", " ">> }

ConfirmLines == { <<>>, <<"1">>, <<"2">>, <<"3">>, <<"x">> }

\* A gift record as add_gift_to_recipient builds it
GiftObj(gift, occ) == Dict(<<Pair(IDEA, Str(gift)), Pair(OCCASION, Str(occ))>>)

\* Contents the file can have when the program is first started
InitFiles ==
    { Missing, Unreadable, Undecodable,
      TextFile(<<>>),
      TextFile(<<Punct("{")>>),
      TextFile(<<Punct("["), Punct("]")>>),
      TextFile(<<Tok("num", <<"5">>)>>),
      TextFile(<<Tok("str", <<"M", "o", "m">>)>>),
      TextFile(Dump(Dict(<<Pair(<<"M", "o", "m">>, PyInt(<<"5">>))>>))),
      TextFile(Dump(Dict(<<Pair(<<"M", "o", "m">>, List(<<PyInt(<<"5">>)>>))>>))) }

----------------------------------------------------------------------------
(* Recipient and gift logic *)

\* faulty variant of list_recipients: the keys in insertion order, not sorted
list_recipients_Unsorted(d) == DictKeys(d)

list_recipients(d) == Sort(DictKeys(d))

\* faulty variant of add_recipient_to_data: the save_data call is missing
add_recipient_to_data_NoSave(d, n) ==
    IF ~DictHas(d, n)
    THEN [data |-> DictSet(d, n, List(<<>>)), saves |-> FALSE, ret |-> TRUE]
    ELSE [data |-> d, saves |-> FALSE, ret |-> FALSE]

\* faulty variant of add_recipient_to_data: the "not in data" test is missing
add_recipient_to_data_Overwrite(d, n) ==
    [data |-> DictSet(d, n, List(<<>>)), saves |-> TRUE, ret |-> TRUE]

\* faulty variant of add_recipient_to_data: reports success without adding the key
add_recipient_to_data_NoInsert(d, n) ==
    IF ~DictHas(d, n)
    THEN [data |-> d, saves |-> FALSE, ret |-> TRUE]
    ELSE [data |-> d, saves |-> FALSE, ret |-> FALSE]

\* the document add_recipient_to_data leaves, whether it calls save_data, and
\* its return value
add_recipient_to_data(d, n) ==
    IF ~DictHas(d, n)
    THEN [data |-> DictSet(d, n, List(<<>>)), saves |-> TRUE, ret |-> TRUE]
    ELSE [data |-> d, saves |-> FALSE, ret |-> FALSE]

\* faulty variant of add_gift_to_recipient: assigns the list instead of appending
add_gift_to_recipient_Replace(d, r, gift, occ) ==
    DictSet(d, r, List(<<GiftObj(gift, occ)>>))

\* faulty variant of add_gift_to_recipient: inserts at the front of the list
add_gift_to_recipient_Prepend(d, r, gift, occ) ==
    DictSet(d, r, List(<<GiftObj(gift, occ)>> \o DictGet(d, r).items))

\* data[recipient_name].append(gift_obj)
add_gift_to_recipient(d, r, gift, occ) ==
    DictSet(d, r, List(Append(DictGet(d, r).items, GiftObj(gift, occ))))

\* data.get(recipient_name, [])
get_gifts_for_recipient(d, r) == IF DictHas(d, r) THEN DictGet(d, r) ELSE List(<<>>)

RECURSIVE SumLens(_)
SumLens(pairs) ==
    IF pairs = <<>> THEN 0 ELSE Len(Head(pairs).items[1].items) + SumLens(Tail(pairs))

TotalGifts(d) == SumLens(d.items)

\* the exception of gift['idea'] / gift['occasion'] in the listing loop
DisplayError(gift) ==
    IF gift.k # "dict" THEN "TypeError"
    ELSE IF ~DictHas(gift, IDEA) \/ ~DictHas(gift, OCCASION) THEN "KeyError"
    ELSE "none"

RECURSIVE ListingError(_)
ListingError(gifts) ==
    IF gifts = <<>> THEN "none"
    ELSE IF DisplayError(Head(gifts)) # "none" THEN DisplayError(Head(gifts))
    ELSE ListingError(Tail(gifts))

----------------------------------------------------------------------------
(* Control *)

Goto(p, stk, nm, gt, oc, msg) ==
    /\ pc' = p
    /\ stack' = stk
    /\ name' = nm
    /\ gift_text' = gt
    /\ occasion' = oc
    /\ out' = msg
    /\ exc' = "none"

\* every screen returns to its caller, which returns in turn, down to the
\* loop of run_program, which calls main_menu again
ToMain(msg) == Goto("main_menu", <<"main_menu">>, <<>>, <<>>, <<>>, msg)

Crash(e) ==
    /\ pc' = "crashed"
    /\ stack' = <<>>
    /\ name' = <<>>
    /\ gift_text' = <<>>
    /\ occasion' = <<>>
    /\ out' = "Traceback"
    /\ exc' = e

NoSave == data' = data /\ file' = file /\ saved' = FALSE

Init ==
    /\ pc = "start"
    /\ stack = <<>>
    /\ data = EmptyDict
    /\ file \in InitFiles
    /\ name = <<>>
    /\ gift_text = <<>>
    /\ occasion = <<>>
    /\ out = ""
    /\ exc = "none"
    /\ saved = FALSE

\* run_program up to the first prompt
run_program ==
    /\ pc = "start"
    /\ file' = file
    /\ saved' = FALSE
    /\ LET r == load_data(file)
       IN  IF r.raised # "none"
           THEN data' = data /\ Crash(r.raised)
           ELSE data' = r.val /\ ToMain("")

\* the user starts the program again
Restart ==
    /\ pc \in {"exited", "crashed"}
    /\ pc' = "start"
    /\ stack' = <<>>
    /\ data' = EmptyDict
    /\ file' = file
    /\ name' = <<>>
    /\ gift_text' = <<>>
    /\ occasion' = <<>>
    /\ out' = ""
    /\ exc' = "none"
    /\ saved' = FALSE

EnterRecipients == Goto("recipients_screen", Append(stack, "recipients_screen"), <<>>, <<>>, <<>>, "")

EnterAddRecipient == Goto("add_recipient_name", Append(stack, "add_recipient_screen"), <<>>, <<>>, <<>>, "")

EnterGiftList(r) ==
    LET gifts == get_gifts_for_recipient(data, r).items
    IN  IF ListingError(gifts) # "none" THEN Crash(ListingError(gifts))
        ELSE Goto("gift_list_screen", Append(stack, "gift_list_screen"), r, <<>>, <<>>, "")

EnterAddGift(r) == Goto("add_gift_idea", Append(stack, "add_gift_screen"), r, <<>>, <<>>, "")

main_menu(raw) ==
    /\ pc = "main_menu"
    /\ NoSave
    /\ LET choice == get_input(raw)
       IN  IF ~is_number(choice) THEN ToMain("Invalid input.")
           ELSE IF ~IntParses(choice) THEN Crash("ValueError")
           ELSE IF IntValue(choice) = 1 THEN EnterRecipients
           ELSE IF IntValue(choice) = 2 THEN EnterAddRecipient
           ELSE IF IntValue(choice) = 0
                THEN /\ pc' = "exited"
                     /\ stack' = <<>>
                     /\ name' = <<>>
                     /\ gift_text' = <<>>
                     /\ occasion' = <<>>
                     /\ out' = "Goodbye!"
                     /\ exc' = "none"
           ELSE ToMain("")

\* faulty variant of recipients_screen: the branch for an empty document is
\* missing, so the numbered menu also serves zero recipients
recipients_screen_NoEmptyBranch(raw) ==
    /\ pc = "recipients_screen"
    /\ NoSave
    /\ LET recipients == list_recipients(data)
           choice == get_input(raw)
           add_option == Len(recipients) + 1
       IN  IF ~is_number(choice) THEN ToMain("Invalid input.")
           ELSE IF ~IntParses(choice) THEN Crash("ValueError")
           ELSE IF IntValue(choice) = 0 THEN ToMain("")
           ELSE IF IntValue(choice) = add_option THEN EnterAddRecipient
           ELSE IF 1 <= IntValue(choice) /\ IntValue(choice) <= Len(recipients)
                THEN EnterGiftList(recipients[IntValue(choice)])
           ELSE ToMain("")

recipients_screen(raw) ==
    /\ pc = "recipients_screen"
    /\ NoSave
    /\ LET recipients == list_recipients(data)
           choice == get_input(raw)
           add_option == Len(recipients) + 1
       IN  IF Len(recipients) = 0
           THEN IF choice = ONE THEN EnterAddRecipient ELSE ToMain("")
           ELSE IF ~is_number(choice) THEN ToMain("Invalid input.")
           ELSE IF ~IntParses(choice) THEN Crash("ValueError")
           ELSE IF IntValue(choice) = 0 THEN ToMain("")
           ELSE IF IntValue(choice) = add_option THEN EnterAddRecipient
           ELSE IF 1 <= IntValue(choice) /\ IntValue(choice) <= Len(recipients)
                THEN EnterGiftList(recipients[IntValue(choice)])
           ELSE ToMain("")

\* faulty variant of add_recipient_name: the test for an empty name is missing
add_recipient_name_NoEmptyCheck(raw) ==
    /\ pc = "add_recipient_name"
    /\ NoSave
    /\ LET entered == get_input(raw)
       IN  IF Lower(entered) = CANCEL THEN ToMain("No recipient was added.")
           ELSE Goto("add_recipient_confirm", stack, clean_text(entered), <<>>, <<>>, "")

\* add_recipient_screen at the name prompt
add_recipient_name(raw) ==
    /\ pc = "add_recipient_name"
    /\ NoSave
    /\ LET entered == get_input(raw)
       IN  IF Lower(entered) = CANCEL THEN ToMain("No recipient was added.")
           ELSE IF clean_text(entered) = <<>> THEN ToMain("Recipient name cannot be empty.")
           ELSE Goto("add_recipient_confirm", stack, clean_text(entered), <<>>, <<>>, "")

\* add_recipient_screen at the confirm/cancel prompt
add_recipient_confirm(raw) ==
    /\ pc = "add_recipient_confirm"
    /\ LET choice == get_input(raw)
           r == add_recipient_to_data(data, name)
           msg == IF r.ret THEN "added successfully." ELSE "already exists."
       IN  IF choice = TWO THEN NoSave /\ ToMain("No recipient was added.")
           ELSE /\ data' = r.data
                /\ saved' = r.saves
                /\ IF r.saves
                   THEN \E o \in save_data(file, r.data) :
                           /\ file' = o.f
                           /\ IF o.raised # "none" THEN Crash(o.raised)
                              ELSE Goto("add_recipient_next", stack, name, <<>>, <<>>, msg)
                   ELSE /\ file' = file
                        /\ Goto("add_recipient_next", stack, name, <<>>, <<>>, msg)

\* add_recipient_screen at the "add a gift idea for this recipient" prompt
add_recipient_next(raw) ==
    /\ pc = "add_recipient_next"
    /\ NoSave
    /\ IF get_input(raw) = ONE THEN EnterAddGift(name) ELSE ToMain("")

gift_list_screen(raw) ==
    /\ pc = "gift_list_screen"
    /\ NoSave
    /\ LET choice == get_input(raw)
       IN  IF choice = ONE THEN EnterAddGift(name)
           ELSE IF choice = TWO
                THEN /\ Cardinality({i \in 1..Len(stack) : stack[i] = "gift_list_screen"})
                          <= MaxReentries
                     /\ EnterRecipients
           ELSE ToMain("")

\* add_gift_screen at the gift idea prompt
add_gift_idea(raw) ==
    /\ pc = "add_gift_idea"
    /\ NoSave
    /\ LET entered == get_input(raw)
       IN  IF Lower(entered) = CANCEL THEN ToMain("No gift idea was added.")
           ELSE IF clean_text(entered) = <<>> THEN ToMain("Gift idea cannot be empty.")
           ELSE Goto("choose_occasion", Append(stack, "choose_occasion"), name,
                     clean_text(entered), <<>>, "")

\* add_gift_screen once choose_occasion has returned occ
AfterOccasion(occ) ==
    Goto("add_gift_confirm", SubSeq(stack, 1, Len(stack) - 1), name, gift_text, occ, "")

\* choose_occasion at the choice prompt; None makes add_gift_screen return
choose_occasion(raw) ==
    /\ pc = "choose_occasion"
    /\ NoSave
    /\ LET choice == get_input(raw)
       IN  IF ~is_number(choice) THEN ToMain("No gift idea was added.")
           ELSE IF ~IntParses(choice) THEN Crash("ValueError")
           ELSE IF IntValue(choice) = 0 THEN ToMain("No gift idea was added.")
           ELSE IF IntValue(choice) = 1 THEN AfterOccasion(BIRTHDAY)
           ELSE IF IntValue(choice) = 2 THEN AfterOccasion(CHRISTMAS)
           ELSE IF IntValue(choice) = 3
                THEN Goto("occasion_other", stack, name, gift_text, <<>>, "")
           ELSE ToMain("No gift idea was added.")

\* choose_occasion at the "Type the occasion" prompt
occasion_other(raw) ==
    /\ pc = "occasion_other"
    /\ NoSave
    /\ LET other == clean_text(get_input(raw))
       IN  IF other = <<>> THEN ToMain("No gift idea was added.")
           ELSE AfterOccasion(OTHER_PREFIX \o other)

\* add_gift_screen at the confirm/cancel prompt
add_gift_confirm(raw) ==
    /\ pc = "add_gift_confirm"
    /\ LET choice == get_input(raw)
       IN  IF choice = TWO THEN NoSave /\ ToMain("No gift idea was added.")
           ELSE IF ~DictHas(data, name) THEN NoSave /\ Crash("KeyError")
           ELSE /\ TotalGifts(data) < MaxGifts
                /\ data' = add_gift_to_recipient(data, name, gift_text, occasion)
                /\ saved' = TRUE
                /\ \E o \in save_data(file, data') :
                      /\ file' = o.f
                      /\ IF o.raised # "none" THEN Crash(o.raised)
                         ELSE ToMain("saved for")

MainMenu == \E raw \in MenuLines : main_menu(raw)

RecipientList == \E raw \in MenuLines : recipients_screen(raw)

AddRecipientName == \E raw \in NameLines : add_recipient_name(raw)

AddRecipientConfirm == \E raw \in ConfirmLines : add_recipient_confirm(raw)

AddRecipientNext == \E raw \in MenuLines : add_recipient_next(raw)

GiftList == \E raw \in MenuLines : gift_list_screen(raw)

AddGiftIdea == \E raw \in IdeaLines : add_gift_idea(raw)

ChooseOccasion == \E raw \in MenuLines : choose_occasion(raw)

OccasionOther == \E raw \in LabelLines : occasion_other(raw)

AddGiftConfirm == \E raw \in ConfirmLines : add_gift_confirm(raw)

Next ==
    \/ run_program
    \/ Restart
    \/ MainMenu
    \/ RecipientList
    \/ AddRecipientName
    \/ AddRecipientConfirm
    \/ AddRecipientNext
    \/ GiftList
    \/ AddGiftIdea
    \/ ChooseOccasion
    \/ OccasionOther
    \/ AddGiftConfirm

Spec == Init /\ [][Next]_vars

----------------------------------------------------------------------------
(* Vocabulary of the properties *)

Mom == <<"M", "o", "m">>

mom == <<"m", "o", "m">>

Scarf == <<"S", "c", "a", "r", "f">>

\* the process is blocked in input()
Prompts ==
    { "main_menu", "recipients_screen", "add_recipient_name", "add_recipient_confirm",
      "add_recipient_next", "gift_list_screen", "add_gift_idea", "choose_occasion",
      "occasion_other", "add_gift_confirm" }

KeySet(d) == {d.items[i].s : i \in 1..Len(d.items)}

\* the same keys and, for each key, the same value
SameMapping(a, b) ==
    /\ KeySet(a) = KeySet(b)
    /\ \A key \in KeySet(a) : DictGet(a, key) = DictGet(b, key)

IsPrefix(a, b) == Len(a) <= Len(b) /\ SubSeq(b, 1, Len(a)) = a

\* what load_data would return from the file now
Reloaded == load_data(file)

----------------------------------------------------------------------------
(* C1: whenever the program waits for input, loading the file returns the    *)
(* in-memory document; after adding Mom and then Scarf for a birthday, the  *)
(* reloaded gifts of Mom are exactly that one record.                       *)

C1_DiskMatchesMemory ==
    pc \in Prompts =>
        /\ Reloaded.raised = "none"
        /\ SameMapping(Reloaded.val, data)

C1_Witness ==
    /\ pc = "main_menu"
    /\ saved
    /\ out = "saved for"
    /\ DictKeys(data) = <<Mom>>
    /\ get_gifts_for_recipient(Reloaded.val, Mom) = List(<<GiftObj(Scarf, BIRTHDAY)>>)

----------------------------------------------------------------------------
(* C2: a recipient is created only by choosing Confirm, a gift only by      *)
(* choosing Confirm and save; any other input at those prompts leaves the   *)
(* document in memory and on disk unchanged.                                *)

C2_OnlyByConfirmation ==
    [][ /\ \A raw \in ConfirmLines :
              (add_recipient_confirm(raw) /\ get_input(raw) # ONE)
                  => (data' = data /\ file' = file)
        /\ \A raw \in ConfirmLines :
              (add_gift_confirm(raw) /\ get_input(raw) # ONE)
                  => (data' = data /\ file' = file) ]_vars

----------------------------------------------------------------------------
(* C3: at every numbered-choice prompt an input that is not one of the      *)
(* listed numbers re-displays the same screen: no crash, no other screen,   *)
(* no change of the document.                                               *)

\* the numbers the screen at pc lists
ListedChoices ==
    IF pc = "main_menu" THEN {0, 1, 2}
    ELSE IF pc = "recipients_screen"
         THEN (IF Len(data.items) = 0 THEN {0, 1} ELSE 0..(Len(data.items) + 1))
    ELSE IF pc = "add_recipient_confirm" THEN {1, 2}
    ELSE IF pc = "add_recipient_next" THEN {0, 1}
    ELSE IF pc = "gift_list_screen" THEN {0, 1, 2}
    ELSE IF pc = "choose_occasion" THEN {0, 1, 2, 3}
    ELSE IF pc = "add_gift_confirm" THEN {1, 2}
    ELSE {}

InvalidChoice(raw) ==
    \/ ~is_number(get_input(raw))
    \/ ~IntParses(get_input(raw))
    \/ IntValue(get_input(raw)) \notin ListedChoices

NumberedPrompt(raw) ==
    \/ main_menu(raw)
    \/ recipients_screen(raw)
    \/ add_recipient_confirm(raw)
    \/ add_recipient_next(raw)
    \/ gift_list_screen(raw)
    \/ choose_occasion(raw)
    \/ add_gift_confirm(raw)

C3_InvalidInputRedisplays ==
    [][ \A raw \in MenuLines :
            (NumberedPrompt(raw) /\ InvalidChoice(raw))
                => (pc' = pc /\ stack' = stack /\ name' = name /\ data' = data) ]_vars

----------------------------------------------------------------------------
(* C4: typing "cancel" in any letter case at the recipient-name prompt or   *)
(* at the gift-idea prompt, or choosing 0 at the occasion prompt, ends the  *)
(* flow without calling save_data; the document on disk and in memory is    *)
(* the one the flow started with.                                           *)

Untouched == data' = data /\ file' = file /\ ~saved'

\* the spellings of "cancel" among the lines typed
CancelTyped == { <<"C", "a", "n", "c", "e", "l">>, <<"C", "A", "N", "C", "E", "L", " ">> }

C4_CancelLeavesDiskUntouched ==
    [][ /\ \A raw \in NameLines \cap CancelTyped :
              add_recipient_name(raw) => (Untouched /\ pc' = "main_menu")
        /\ \A raw \in IdeaLines \cap CancelTyped :
              add_gift_idea(raw) => (Untouched /\ pc' = "main_menu")
        /\ choose_occasion(<<"0">>) => (Untouched /\ pc' = "main_menu")
        \* nothing between the start of the add-gift flow and the occasion prompt
        \* writes either
        /\ pc \in {"add_gift_idea", "choose_occasion", "occasion_other"} => Untouched ]_vars

C4_Witness ==
    /\ pc = "main_menu"
    /\ out = "No gift idea was added."
    /\ ~saved
    /\ TotalGifts(data) = 1
    /\ file = TextFile(Dump(data))

----------------------------------------------------------------------------
(* C5: confirming a name that is already a key returns False, saves         *)
(* nothing and leaves every entry as it was; a name that differs from the   *)
(* keys, if only in letter case, becomes a new recipient.                   *)

C5_Uniqueness ==
    [][ \A raw \in ConfirmLines :
            (add_recipient_confirm(raw) /\ get_input(raw) # TWO) =>
                /\ name = clean_text(name)
                /\ DictHas(data, name) =>
                      /\ ~add_recipient_to_data(data, name).ret
                      /\ Untouched
                      /\ out' = "already exists."
                /\ ~DictHas(data, name) =>
                      /\ add_recipient_to_data(data, name).ret
                      /\ KeySet(data') = KeySet(data) \cup {name}
                      /\ \A key \in KeySet(data) : DictGet(data', key) = DictGet(data, key) ]_vars

C5_Witness ==
    /\ pc = "add_recipient_next"
    /\ out = "already exists."
    /\ name = Mom
    /\ KeySet(data) = {Mom, mom}
    /\ Len(DictGet(data, Mom).items) = 1
    /\ file = TextFile(Dump(data))

----------------------------------------------------------------------------
(* C6: within one run the set of recipient names only grows and each        *)
(* recipient's gift sequence only gets longer at its end.                   *)

Grows(d, e) ==
    /\ KeySet(d) \subseteq KeySet(e)
    /\ \A key \in KeySet(d) : IsPrefix(DictGet(d, key).items, DictGet(e, key).items)

C6_NothingDeletedOrEdited == [][pc' # "start" => Grows(data, data')]_vars

C6_Witness ==
    /\ pc = "main_menu"
    /\ out = "saved for"
    /\ KeySet(data) = {Mom, mom}
    /\ Len(DictGet(data, mom).items) = 2
    /\ DictGet(data, mom).items[1] # DictGet(data, mom).items[2]

----------------------------------------------------------------------------
(* C7: save_data followed by load_data returns a mapping with the same keys *)
(* and, for each key, the same gift records in the same order.              *)

IsGiftRecord(v) ==
    /\ v.k = "dict"
    /\ KeySet(v) = {IDEA, OCCASION}
    /\ DictGet(v, IDEA).k = "str"
    /\ DictGet(v, OCCASION).k = "str"

\* a mapping from recipient names to sequences of gift records
IsDocument(d) ==
    /\ d.k = "dict"
    /\ \A i \in 1..Len(d.items) :
          /\ d.items[i].items[1].k = "list"
          /\ \A j \in 1..Len(d.items[i].items[1].items) :
                IsGiftRecord(d.items[i].items[1].items[j])

C7_RoundTrip ==
    IsDocument(data) =>
        LET loaded == load_data(Written(data))
        IN  /\ loaded.raised = "none"
            /\ KeySet(loaded.val) = KeySet(data)
            /\ \A key \in KeySet(data) :
                  DictGet(loaded.val, key).items = DictGet(data, key).items

C7_Witness ==
    /\ pc = "main_menu"
    /\ saved
    /\ IsDocument(data)
    /\ DictKeys(data) = <<mom, Mom>>
    /\ Len(DictGet(data, Mom).items) = 2

----------------------------------------------------------------------------
(* C8: loading a file that holds a JSON array, a JSON scalar or text that   *)
(* is not JSON returns what loading a missing file returns, an empty        *)
(* mapping, and raises nothing.                                             *)

\* what the text of f is: "array", "scalar", "object" or "invalid"
TextKind(f) ==
    LET r == json_load(f.toks)
    IN  IF ~r.ok THEN "invalid"
        ELSE IF r.val.k = "list" THEN "array"
        ELSE IF r.val.k = "dict" THEN "object"
        ELSE "scalar"

IsArrayText(f) == f.st = "ok" /\ TextKind(f) = "array"

----------------------------------------------------------------------------
(* C9: whatever state the file is in when the program starts, load_data     *)
(* returns a mapping without raising and the program reaches the main menu. *)

C9_NeverFailsToStart ==
    [][pc = "start" => (pc' = "main_menu" /\ exc' = "none")]_vars

----------------------------------------------------------------------------
(* C10: every key of the document maps to a sequence in every reachable     *)
(* state, and load_data keeps the key of a value it replaces.               *)

C10_EveryKeyMapsToSequence ==
    /\ \A i \in 1..Len(data.items) : data.items[i].items[1].k = "list"
    /\ (file.st = "ok" /\ TextKind(file) = "object") =>
          /\ DictKeys(Reloaded.val) = DictKeys(json_load(file.toks).val)
          /\ \A i \in 1..Len(Reloaded.val.items) : Reloaded.val.items[i].items[1].k = "list"

C10_Witness ==
    /\ pc = "gift_list_screen"
    /\ name = Mom
    /\ file = TextFile(Dump(Dict(<<Pair(Mom, PyInt(<<"5">>))>>)))
    /\ data = Dict(<<Pair(Mom, List(<<>>))>>)

----------------------------------------------------------------------------
(* C11: the process ends if and only if the user chooses 0 at the main      *)
(* menu; choosing 0 at the recipient list, at the prompt that follows an    *)
(* added recipient, at the gift list or at the occasion prompt leaves       *)
(* exactly one screen of the active chain and never ends the process.       *)

Zero == <<"0">>

Ended == {"exited", "crashed"}

\* the active chain without its innermost frame
OneLevelUp(stk) == SubSeq(stk, 1, Len(stk) - 1)

ZeroElsewhere ==
    \/ recipients_screen(Zero)
    \/ add_recipient_next(Zero)
    \/ gift_list_screen(Zero)
    \/ choose_occasion(Zero)

C11_EndsOnlyThroughMainMenu ==
    [][ /\ main_menu(Zero) => pc' = "exited"
        /\ (pc \notin Ended /\ pc' \in Ended) => main_menu(Zero)
        /\ ZeroElsewhere => (pc' \notin Ended /\ stack' = OneLevelUp(stack)) ]_vars

----------------------------------------------------------------------------
(* C12: an empty or whitespace-only recipient name, gift idea or custom     *)
(* occasion label ends the flow at the main menu with the document in       *)
(* memory and on disk unchanged; every recipient name and every idea of a   *)
(* gift record is a non-empty string without leading, trailing or repeated  *)
(* whitespace, and no record has the occasion "Other: " with an empty label.*)

BlankLines == { <<>>, <<" ">> }

\* non-empty, single spaces between words only
Collapsed(s) ==
    /\ s # <<>>
    /\ s[1] \notin Whitespace
    /\ s[Len(s)] \notin Whitespace
    /\ \A i \in 1..(Len(s) - 1) : s[i] \in Whitespace => (s[i] = " " /\ s[i + 1] \notin Whitespace)

GiftRecords(d) ==
    { g \in UNION { {v.items[1].items[j] : j \in 1..Len(v.items[1].items)} :
                       v \in {d.items[i] : i \in 1..Len(d.items)} } : IsGiftRecord(g) }

NoPartialRecord(d) ==
    /\ \A key \in KeySet(d) : Collapsed(key)
    /\ \A g \in GiftRecords(d) :
          /\ Collapsed(DictGet(g, IDEA).s)
          /\ DictGet(g, OCCASION).s # OTHER_PREFIX
          /\ Collapsed(DictGet(g, OCCASION).s)

C12_EmptyTextAborts ==
    [][ /\ \A raw \in NameLines \cap BlankLines :
              add_recipient_name(raw) => (Untouched /\ pc' = "main_menu")
        /\ \A raw \in IdeaLines \cap BlankLines :
              add_gift_idea(raw) => (Untouched /\ pc' = "main_menu")
        /\ \A raw \in LabelLines \cap BlankLines :
              occasion_other(raw) => (Untouched /\ pc' = "main_menu")
        /\ NoPartialRecord(data') ]_vars

C12_Witness ==
    /\ pc = "main_menu"
    /\ out = "Gift idea cannot be empty."
    /\ KeySet(data) = {Mom, mom}
    /\ \E g \in GiftRecords(data) : IsPrefix(OTHER_PREFIX, DictGet(g, OCCASION).s)

----------------------------------------------------------------------------
(* C13: choose_occasion returns "Birthday" for 1, "Christmas" for 2 and     *)
(* "Other: <label>" for 3 followed by a non-empty trimmed label; 0, 3 with  *)
(* an empty label, a non-numeric input and any other number all cancel the  *)
(* add-gift flow, and no input raises.                                      *)

\* the lines typed that denote the number n
Typed(n) ==
    IF n = 0 THEN { Zero }
    ELSE IF n = 1 THEN { <<"1">>, <<" ", "1">>, <<"0", "1">> }
    ELSE IF n = 2 THEN { <<"2">> }
    ELSE IF n = 3 THEN { <<"3">> }
    ELSE {}

NewYear == <<"N", "e", "w", " ", "Y", "e", "a", "r">>

\* choose_occasion returned occ to add_gift_screen
Returns(occ) == pc' = "add_gift_confirm" /\ occasion' = occ /\ gift_text' = gift_text /\ name' = name

\* choose_occasion returned None without raising
Cancels == pc' = "main_menu" /\ exc' = "none" /\ Untouched

C13_OccasionSelection ==
    [][ /\ \A raw \in MenuLines :
              choose_occasion(raw) =>
                  IF raw \in Typed(1) THEN Returns(BIRTHDAY)
                  ELSE IF raw \in Typed(2) THEN Returns(CHRISTMAS)
                  ELSE IF raw \in Typed(3) THEN pc' = "occasion_other"
                  ELSE Cancels
        /\ \A raw \in LabelLines :
              occasion_other(raw) =>
                  IF raw \in BlankLines THEN Cancels
                  ELSE Returns(OTHER_PREFIX \o NewYear) ]_vars

----------------------------------------------------------------------------
(* C14: list_recipients returns every key of the document exactly once in   *)
(* ascending case-sensitive order (Bob, Zed, alice for the keys Bob, alice, *)
(* Zed); on the recipient list of a non-empty document the number i opens   *)
(* the gift list of the i-th name of that order and the number count + 1    *)
(* opens the add-recipient screen.                                          *)

Bob == <<"B", "o", "b">>

alice == <<"a", "l", "i", "c", "e">>

Zed == <<"Z", "e", "d">>

BobAliceZed == Dict(<<Pair(Bob, List(<<>>)), Pair(alice, List(<<>>)), Pair(Zed, List(<<>>))>>)

\* the key of d that has exactly i - 1 keys before it
Nth(d, i) == CHOOSE key \in KeySet(d) : Cardinality({k \in KeySet(d) : StrLess(k, key)}) = i - 1

EveryKeyOnceAscending(d) ==
    LET listed == list_recipients(d)
    IN  /\ Len(listed) = Cardinality(KeySet(d))
        /\ \A i \in 1..Len(listed) : listed[i] = Nth(d, i)

C14_SortedListing ==
    [][ /\ pc = "start" => list_recipients(BobAliceZed) = <<Bob, Zed, alice>>
        /\ pc = "recipients_screen" =>
              /\ EveryKeyOnceAscending(data)
              /\ KeySet(data) = {Mom, mom} => list_recipients(data) = <<Mom, mom>>
        /\ \A raw \in MenuLines :
              (recipients_screen(raw) /\ Len(data.items) > 0 /\ IsDocument(data)) =>
                  /\ \A i \in 1..Len(data.items) :
                        raw \in Typed(i) => (pc' = "gift_list_screen" /\ name' = Nth(data, i))
                  /\ raw \in Typed(Len(data.items) + 1) => pc' = "add_recipient_name" ]_vars

C14_Witness ==
    /\ pc = "gift_list_screen"
    /\ name = Mom
    /\ DictKeys(data) = <<mom, Mom>>

----------------------------------------------------------------------------
(* C15: each confirmed add-gift for recipient r appends exactly one record  *)
(* {idea, occasion} at the end of r's sequence and changes no other         *)
(* recipient's sequence, so the gifts of r are listed in the order they     *)
(* were added (Socks, then Book).                                           *)

Socks == <<"S", "o", "c", "k", "s">>

Book == <<"B", "o", "o", "k">>

SocksThenBook ==
    add_gift_to_recipient(
        add_gift_to_recipient(Dict(<<Pair(Mom, List(<<>>))>>), Mom, Socks, BIRTHDAY),
        Mom, Book, CHRISTMAS)

\* e is d with one record more at the end of r's sequence
AppendedTo(d, e, r, record) ==
    /\ DictKeys(e) = DictKeys(d)
    /\ DictGet(e, r).items = Append(DictGet(d, r).items, record)
    /\ \A key \in KeySet(d) \ {r} : DictGet(e, key) = DictGet(d, key)

C15_AppendOrder ==
    [][ /\ pc = "start" =>
              get_gifts_for_recipient(SocksThenBook, Mom).items
                  = <<GiftObj(Socks, BIRTHDAY), GiftObj(Book, CHRISTMAS)>>
        \* choosing Confirm and save is never a step that leaves the document as it was
        /\ (pc = "add_gift_confirm" /\ data' = data) => ~add_gift_confirm(<<"1">>)
        \* whatever was typed at the prompt, a changed document is one append
        /\ (pc = "add_gift_confirm" /\ data' # data) =>
              AppendedTo(data, data', name, GiftObj(gift_text, occasion)) ]_vars

C15_Witness ==
    /\ pc = "main_menu"
    /\ out = "saved for"
    /\ KeySet(data) = {Mom, mom}
    /\ get_gifts_for_recipient(data, mom).items
           = <<GiftObj(Scarf, BIRTHDAY), GiftObj(Scarf, CHRISTMAS)>>

----------------------------------------------------------------------------
(* C16: whenever a gift list or an add-gift screen is active for recipient  *)
(* r, whether reached from the recipient list or chained from the           *)
(* add-recipient screen for a new or an existing name, r is a key of the    *)
(* document in memory, and the append never raises KeyError.                *)

AddGiftPrompts == {"add_gift_idea", "choose_occasion", "occasion_other", "add_gift_confirm"}

C16_RecipientIsKey ==
    /\ pc \in AddGiftPrompts \cup {"gift_list_screen"} => name \in KeySet(data)
    /\ exc # "KeyError"

C16_Witness ==
    /\ pc = "add_gift_confirm"
    /\ stack = <<"main_menu", "add_recipient_screen", "add_gift_screen">>
    /\ name = mom
    /\ DictKeys(data) = <<Mom, mom>>

----------------------------------------------------------------------------
(* C17: the recipient list of a document without recipients offers only     *)
(* add and return: the input 1 opens the add-recipient screen, every other  *)
(* input returns to the main menu, and a gift list is never open while the  *)
(* document has no recipients.                                              *)

\* the lines typed that get_input returns as "1"
OneTyped == { <<"1">>, <<" ", "1">> }

C17_ReducedMenu ==
    [][ /\ \A raw \in MenuLines :
              (recipients_screen(raw) /\ data.items = <<>>) =>
                  IF raw \in OneTyped
                  THEN pc' = "add_recipient_name" /\ stack' = Append(stack, "add_recipient_screen")
                  ELSE pc' = "main_menu" /\ stack' = <<"main_menu">> /\ exc' = "none"
        /\ pc' = "gift_list_screen" => data'.items # <<>> ]_vars

C17_Witness ==
    /\ pc = "add_recipient_name"
    /\ stack = <<"main_menu", "recipients_screen", "add_recipient_screen">>
    /\ data = EmptyDict

----------------------------------------------------------------------------
(* C18: whatever is typed, and however often the user goes from a gift list *)
(* back to the recipient list and picks a recipient again, there are never  *)
(* more than four screens active at once (main menu, recipient list, gift   *)
(* list, add gift).                                                         *)

\* the screens of the active chain; choose_occasion is a prompt of add gift
ActiveScreens(stk) == Cardinality({i \in 1..Len(stk) : stk[i] # "choose_occasion"})

C18_DepthBounded == ActiveScreens(stack) <= 4

====
